---- MODULE Spec2Model ----
(***************************************************************************)
(* OpenSeat (src/main.py): one run of the UCR seat checker.                *)
(*                                                                         *)
(* The run is a single thread that blocks on four HTTP calls.  A state of  *)
(* the model is the position of that thread (pc) together with the module  *)
(* globals, the locals of check_class_availability and a record of what    *)
(* has been sent over the network.  Every action is the code that runs     *)
(* between two blocking calls.                                             *)
(***************************************************************************)
EXTENDS Integers, Sequences, FiniteSets, TLC

VARIABLES
    entry,                     \* "script": run as __main__; "call": check_class_availability() called directly
    PUSHOVER_USER_KEY,         \* main.py:14
    PUSHOVER_API_TOKEN,        \* main.py:15
    pc,                        \* where the thread is
    sent,                      \* requests sent through `session`, in order
    outcome,                   \* what came back for each registration request
    data,                      \* main.py:69, the parsed JSON object
    open_and_wanted_sections,  \* main.py:74
    message_body,              \* main.py:89
    notifications,             \* calls of send_pushover_notification, in order
    pushover_posts,            \* payloads POSTed to api.pushover.net
    call_site,                 \* which call of send_pushover_notification is active
    delivery,                  \* result of the last pushover POST
    exit_code,                 \* process exit status once pc = "exited"
    uncaught                   \* exception that left check_class_availability, "" if none

vars == <<entry, PUSHOVER_USER_KEY, PUSHOVER_API_TOKEN, pc, sent, outcome, data,
          open_and_wanted_sections, message_body, notifications, pushover_posts,
          call_site, delivery, exit_code, uncaught>>

-----------------------------------------------------------------------------
(* Bounds *)

MaxSections == 2          \* longest data array in a full run
MaxFilterSections == 2    \* longest data array handed to the filter alone
MaxMeetings == 2          \* most meetings of one section handed to the filter
MaxMsgMeetings == 2       \* most meetings of the section that is formatted

-----------------------------------------------------------------------------
(* Configuration, main.py:11-15 *)

TERM_CODE == "202610"
COURSE_SUBJECT_CODE == "BUS106"

None == "None"            \* os.getenv of an unset variable
Credentials == {None, "", "secret"}

\* Python truthiness of a credential string: None and "" are falsy.
Truthy(s) == s # None /\ s # ""

-----------------------------------------------------------------------------
(* The requests library, as used by main.py *)

Statuses == {200, 304, 404, 500}

\* Response.raise_for_status(): HTTPError for 4xx and 5xx, nothing otherwise.
raise_for_status(status) == status >= 400 /\ status < 600

RequestExceptions == {"ConnectionError", "Timeout", "HTTPError", "JSONDecodeError"}

GetPage == [method |-> "GET", url |-> "classSearch/classSearch", term |-> ""]
PostTerm == [method |-> "POST", url |-> "term/search?mode=search", term |-> TERM_CODE]
GetSearch == [method |-> "GET", url |-> "searchResults/searchResults", term |-> TERM_CODE]

RegistrationSteps == {"get_page", "post_term", "get_search"}

\* timeout= argument of each HTTP call; 0 stands for "no timeout given".
TimeoutOf(step) ==
    CASE step = "get_page" -> 15
      [] step = "post_term" -> 0
      [] step = "get_search" -> 15
      [] step = "pushover" -> 10

NoOutcome == [kind |-> "none", code |-> 0, exc |-> ""]
StatusOutcome(status) == [kind |-> "status", code |-> status, exc |-> ""]
ErrorOutcome(exc) == [kind |-> "error", code |-> 0, exc |-> exc]

-----------------------------------------------------------------------------
(* The filter, main.py:74-85 *)

RECURSIVE MeetingLoop(_)
\* main.py:79-83: the loop over section['meetingsFaculty'] with its break
MeetingLoop(meetings) ==
    IF meetings = <<>> THEN FALSE
    ELSE LET mt == Head(meetings).meetingTime
         IN  IF mt.friday /\ mt.beginTime \in {"0800", "0900"}
             THEN TRUE
             ELSE MeetingLoop(Tail(meetings))

\* A plausible slip: the schedule type test of line 78 left out.
is_excluded_any_type(section) == MeetingLoop(section.meetingsFaculty)

\* main.py:77-83
is_excluded(section) ==
    IF section.scheduleTypeDescription = "Discussion"
    THEN MeetingLoop(section.meetingsFaculty)
    ELSE FALSE

\* A plausible slip: insert(0, section) instead of append(section).
KeepAtFront(acc, section) == <<section>> \o acc

\* main.py:85
Keep(acc, section) == Append(acc, section)

RECURSIVE SectionLoop(_, _)
\* main.py:75-85: the loop over data['data']
SectionLoop(sections, acc) ==
    IF sections = <<>> THEN acc
    ELSE LET section == Head(sections)
         IN  SectionLoop(Tail(sections),
                 IF section.seatsAvailable > 0 /\ ~is_excluded(section)
                 THEN Keep(acc, section)
                 ELSE acc)

Filter(sections) == SectionLoop(sections, <<>>)

-----------------------------------------------------------------------------
(* The message, main.py:89-101 *)

WEEKDAYS == <<"monday", "tuesday", "wednesday", "thursday", "friday">>

\* d[0]: the first character of the day's name
FirstChar(d) ==
    CASE d = "monday" -> "m"
      [] d = "tuesday" -> "t"
      [] d = "wednesday" -> "w"
      [] d = "thursday" -> "t"
      [] d = "friday" -> "f"

RECURSIVE JoinDays(_, _)
JoinDays(mt, names) ==
    IF names = <<>> THEN <<>>
    ELSE (IF mt[Head(names)] THEN <<FirstChar(Head(names))>> ELSE <<>>)
         \o JoinDays(mt, Tail(names))

\* main.py:99; a string is the sequence of its characters
days(mt) == JoinDays(mt, WEEKDAYS)

\* main.py:97-100
MeetingLines(section) ==
    [j \in 1..Len(section.meetingsFaculty) |->
        LET mt == section.meetingsFaculty[j].meetingTime
        IN  [days |-> days(mt), beginTime |-> mt.beginTime]]

\* main.py:94: section['faculty'][0] of an empty list raises IndexError
FormatRaises(sections) ==
    \E i \in 1..Len(sections) : Len(sections[i].faculty) = 0

\* main.py:89-101
MessageBody(sections) ==
    [i \in 1..Len(sections) |->
        [crn |-> sections[i].courseReferenceNumber,
         scheduleType |-> sections[i].scheduleTypeDescription,
         seats |-> sections[i].seatsAvailable,
         maximum |-> sections[i].maximumEnrollment,
         instructor |-> sections[i].faculty[1].displayName,
         meetings |-> MeetingLines(sections[i])]]

\* main.py:108
ErrorMessage(exc) == <<[error |-> exc]>>

-----------------------------------------------------------------------------
(* What the registration site may answer *)

SeqsUpTo(S, n) == UNION {[1..k -> S] : k \in 0..n}

Meeting(m, t, w, r, f, begin) ==
    [meetingTime |-> [monday |-> m, tuesday |-> t, wednesday |-> w,
                      thursday |-> r, friday |-> f, beginTime |-> begin]]

Section(crn, type, seats, maximum, faculty, meetings) ==
    [courseReferenceNumber |-> crn, scheduleTypeDescription |-> type,
     seatsAvailable |-> seats, maximumEnrollment |-> maximum,
     faculty |-> faculty, meetingsFaculty |-> meetings]

Instructor == [displayName |-> "Staff"]

\* Sections a full run may be served: an excluded Discussion, an open
\* Lecture, an open Lecture with no instructor assigned, a full Discussion.
RunSections ==
    { Section("10001", "Discussion", 5, 30, <<Instructor>>,
              <<Meeting(FALSE, FALSE, FALSE, FALSE, TRUE, "0800")>>),
      Section("10002", "Lecture", 3, 30, <<Instructor>>,
              <<Meeting(FALSE, TRUE, FALSE, TRUE, FALSE, "1000")>>),
      Section("10003", "Lecture", 1, 30, <<>>, <<>>),
      Section("10004", "Discussion", 0, 30, <<Instructor>>,
              <<Meeting(FALSE, FALSE, FALSE, FALSE, TRUE, "1000")>>) }

TotalCounts == {-1, 0, 1}

\* JSON objects with any of the three top-level keys present or missing.
Payloads ==
    LET SuccessPart == {<<>>} \cup {("success" :> b) : b \in BOOLEAN}
        DataPart == {<<>>} \cup {("data" :> l) : l \in SeqsUpTo(RunSections, MaxSections)}
        CountPart == {<<>>} \cup {("totalCount" :> n) : n \in TotalCounts}
    IN  {s @@ d @@ c : s \in SuccessPart, d \in DataPart, c \in CountPart}

\* main.py:71-72: the exception the validation line raises, "ok" if none.
\* data.get('success') is None for a missing key; data['totalCount'] of a
\* missing key raises KeyError.
Validate(json) ==
    IF ~("success" \in DOMAIN json /\ json.success) THEN "ValueError"
    ELSE IF "data" \notin DOMAIN json THEN "ValueError"
    ELSE IF "totalCount" \notin DOMAIN json THEN "KeyError"
    ELSE IF json.totalCount = 0 THEN "ValueError"
    ELSE "ok"

-----------------------------------------------------------------------------
(* Exception handling *)

\* A plausible slip: only ValueError named in the except clause.
Caught_ValueErrorOnly(exc) == exc = "ValueError"

\* main.py:107: except (requests.exceptions.RequestException, ValueError)
Caught(exc) == exc \in RequestExceptions \/ exc = "ValueError"

\* A plausible slip: the try/except around requests.post left out.
NotifierCaught_Nothing(exc) == FALSE

\* main.py:43: except requests.exceptions.RequestException
NotifierCaught(exc) == exc \in RequestExceptions

\* A plausible slip: `and` in place of `or`.
NotifierGuard_And(user, token) == ~Truthy(user) /\ ~Truthy(token)

\* main.py:21: if not PUSHOVER_USER_KEY or not PUSHOVER_API_TOKEN
NotifierGuard(user, token) == ~Truthy(user) \/ ~Truthy(token)

\* main.py:114
MainGuard(user, token) == ~Truthy(user) \/ ~Truthy(token)

\* main.py:26-37
Payload(title, message, is_high_priority) ==
    [token |-> PUSHOVER_API_TOKEN, user |-> PUSHOVER_USER_KEY,
     title |-> title, message |-> message, html |-> 1]
    @@ (IF is_high_priority THEN [priority |-> 1, sound |-> "persistent"] ELSE <<>>)

SeatFoundTitle == <<"Seat Found for ", COURSE_SUBJECT_CODE, "!">>
FailureTitle == <<"UCR Checker Failure">>

\* The process ends: a normal return (0), sys.exit(1), or a traceback (1).
Finish(code, exc) ==
    /\ pc' = "exited"
    /\ exit_code' = code
    /\ uncaught' = exc

\* send_pushover_notification returns to its caller: after line 103 the
\* function and the script end, after line 110 comes sys.exit(1).
Return(site) == Finish(IF site = "line103" THEN 0 ELSE 1, "")

\* main.py:19-40: a call of send_pushover_notification up to its HTTP POST
Notify(title, message, is_high_priority, site) ==
    /\ notifications' = Append(notifications,
           [title |-> title, message |-> message, is_high_priority |-> is_high_priority])
    /\ call_site' = site
    /\ IF NotifierGuard(PUSHOVER_USER_KEY, PUSHOVER_API_TOKEN)
       THEN /\ Return(site)
            /\ UNCHANGED pushover_posts
       ELSE /\ pushover_posts' = Append(pushover_posts, Payload(title, message, is_high_priority))
            /\ pc' = "pushover"
            /\ UNCHANGED <<exit_code, uncaught>>

\* main.py:107-111: an exception raised inside the try block
Handler(exc) ==
    IF Caught(exc)
    THEN Notify(FailureTitle, ErrorMessage(exc), TRUE, "line110")
    ELSE /\ Finish(1, exc)
         /\ UNCHANGED <<notifications, pushover_posts, call_site>>

\* main.py:43-44, and what follows if the exception is not caught there:
\* raised under line 103 it reaches the except of line 107, raised under
\* line 110 it leaves the function.
NotifierExcept(exc) ==
    /\ delivery' = "failed"
    /\ IF NotifierCaught(exc)
       THEN /\ Return(call_site)
            /\ UNCHANGED <<notifications, pushover_posts, call_site>>
       ELSE IF call_site = "line103"
            THEN Handler(exc)
            ELSE /\ Finish(1, exc)
                 /\ UNCHANGED <<notifications, pushover_posts, call_site>>

\* An exception raised by the HTTP call the thread is blocked in.
Raise(exc) ==
    IF pc = "pushover"
    THEN /\ NotifierExcept(exc)
         /\ UNCHANGED outcome
    ELSE /\ outcome' = [outcome EXCEPT ![pc] = ErrorOutcome(exc)]
         /\ Handler(exc)
         /\ UNCHANGED delivery

-----------------------------------------------------------------------------
(* The run *)

Config == <<entry, PUSHOVER_USER_KEY, PUSHOVER_API_TOKEN>>
Locals == <<data, open_and_wanted_sections, message_body>>

Init ==
    /\ entry \in {"script", "call"}
    /\ PUSHOVER_USER_KEY \in Credentials
    /\ PUSHOVER_API_TOKEN \in Credentials
    /\ pc = "start"
    /\ sent = <<>>
    /\ outcome = [s \in RegistrationSteps |-> NoOutcome]
    /\ data = <<>>
    /\ open_and_wanted_sections = <<>>
    /\ message_body = <<>>
    /\ notifications = <<>>
    /\ pushover_posts = <<>>
    /\ call_site = ""
    /\ delivery = "none"
    /\ exit_code = -1
    /\ uncaught = ""

\* main.py:113-116
MissingCredentials ==
    /\ pc = "start"
    /\ entry = "script"
    /\ MainGuard(PUSHOVER_USER_KEY, PUSHOVER_API_TOKEN)
    /\ Finish(1, "")
    /\ UNCHANGED <<Config, Locals, sent, outcome, notifications, pushover_posts,
                   call_site, delivery>>

\* main.py:117, 48-60: the session is set up and the search page requested
InitializeSession ==
    /\ pc = "start"
    /\ entry = "script" => ~MainGuard(PUSHOVER_USER_KEY, PUSHOVER_API_TOKEN)
    /\ sent' = Append(sent, GetPage)
    /\ pc' = "get_page"
    /\ UNCHANGED <<Config, Locals, outcome, notifications, pushover_posts,
                   call_site, delivery, exit_code, uncaught>>

\* A plausible slip: .raise_for_status() left off line 60.
PageResponse_Unchecked(status) ==
    /\ pc = "get_page"
    /\ outcome' = [outcome EXCEPT !["get_page"] = StatusOutcome(status)]
    /\ sent' = Append(sent, PostTerm)
    /\ pc' = "post_term"
    /\ UNCHANGED <<Config, Locals, notifications, pushover_posts, call_site,
                   delivery, exit_code, uncaught>>

\* main.py:60-63: the search page answers; then the term is selected
PageResponse(status) ==
    /\ pc = "get_page"
    /\ outcome' = [outcome EXCEPT !["get_page"] = StatusOutcome(status)]
    /\ IF raise_for_status(status)
       THEN /\ Handler("HTTPError")
            /\ UNCHANGED sent
       ELSE /\ sent' = Append(sent, PostTerm)
            /\ pc' = "post_term"
            /\ UNCHANGED <<notifications, pushover_posts, call_site, exit_code, uncaught>>
    /\ UNCHANGED <<Config, Locals, delivery>>

\* main.py:63-67: the term selection answers; then the search is sent
TermResponse(status) ==
    /\ pc = "post_term"
    /\ outcome' = [outcome EXCEPT !["post_term"] = StatusOutcome(status)]
    /\ IF raise_for_status(status)
       THEN /\ Handler("HTTPError")
            /\ UNCHANGED sent
       ELSE /\ sent' = Append(sent, GetSearch)
            /\ pc' = "get_search"
            /\ UNCHANGED <<notifications, pushover_posts, call_site, exit_code, uncaught>>
    /\ UNCHANGED <<Config, Locals, delivery>>

\* main.py:67-105: the search answers with a JSON body (is_json) or with
\* something else; validation, filter, message, and the call of the notifier
SearchResponse(status, is_json, json) ==
    /\ pc = "get_search"
    /\ UNCHANGED <<Config, sent, delivery>>
    /\ IF raise_for_status(status)
       THEN /\ outcome' = [outcome EXCEPT !["get_search"] = StatusOutcome(status)]
            /\ Handler("HTTPError")
            /\ UNCHANGED Locals
       ELSE IF ~is_json
       THEN /\ outcome' = [outcome EXCEPT !["get_search"] =
                              [StatusOutcome(status) EXCEPT !.exc = "JSONDecodeError"]]
            /\ Handler("JSONDecodeError")
            /\ UNCHANGED Locals
       ELSE /\ outcome' = [outcome EXCEPT !["get_search"] = StatusOutcome(status)]
            /\ data' = json
            /\ IF Validate(json) # "ok"
               THEN /\ Handler(Validate(json))
                    /\ UNCHANGED <<open_and_wanted_sections, message_body>>
               ELSE LET found == Filter(json.data)
                    IN  /\ open_and_wanted_sections' = found
                        /\ IF found = <<>>
                           THEN /\ Finish(0, "")
                                /\ UNCHANGED <<message_body, notifications,
                                               pushover_posts, call_site>>
                           ELSE IF FormatRaises(found)
                           THEN /\ Handler("IndexError")
                                /\ UNCHANGED message_body
                           ELSE /\ message_body' = MessageBody(found)
                                /\ Notify(SeatFoundTitle, MessageBody(found), TRUE, "line103")

\* main.py:40-42: api.pushover.net answers
PushoverResponse(status) ==
    /\ pc = "pushover"
    /\ IF raise_for_status(status)
       THEN NotifierExcept("HTTPError")
       ELSE /\ delivery' = "sent"
            /\ Return(call_site)
            /\ UNCHANGED <<notifications, pushover_posts, call_site>>
    /\ UNCHANGED <<Config, Locals, sent, outcome>>

\* The connection of the call in progress fails
ConnectionFails ==
    /\ pc \in RegistrationSteps \cup {"pushover"}
    /\ Raise("ConnectionError")
    /\ UNCHANGED <<Config, Locals, sent>>

\* The timeout of the call in progress, if it was given one, expires
TimeoutExpires ==
    /\ pc \in RegistrationSteps \cup {"pushover"}
    /\ TimeoutOf(pc) > 0
    /\ Raise("Timeout")
    /\ UNCHANGED <<Config, Locals, sent>>

Next ==
    \/ MissingCredentials
    \/ InitializeSession
    \/ \E status \in Statuses : PageResponse(status)
    \/ \E status \in Statuses : TermResponse(status)
    \/ \E status \in Statuses, is_json \in BOOLEAN, json \in Payloads :
           SearchResponse(status, is_json, json)
    \/ \E status \in Statuses : PushoverResponse(status)
    \/ ConnectionFails
    \/ TimeoutExpires

Spec == Init /\ [][Next]_vars

\* The interpreter runs the program's own steps and the requests library
\* fires the timeouts it was given; no server is obliged to answer.
FairSpec ==
    /\ Spec
    /\ WF_vars(MissingCredentials)
    /\ WF_vars(InitializeSession)
    /\ WF_vars(TimeoutExpires)

-----------------------------------------------------------------------------
(* The filter on its own: lines 74-85 applied to a validated payload *)

FilterMeetings ==
    { Meeting(FALSE, FALSE, FALSE, FALSE, TRUE, "0800"),
      Meeting(FALSE, FALSE, FALSE, FALSE, TRUE, "0900"),
      Meeting(FALSE, FALSE, FALSE, FALSE, TRUE, "1000"),
      Meeting(TRUE, FALSE, FALSE, FALSE, FALSE, "0800") }

FilterSections ==
    { Section("10001", type, seats, 30, <<Instructor>>, meetings) :
        type \in {"Discussion", "Lecture"},
        seats \in {0, 2},
        meetings \in SeqsUpTo(FilterMeetings, MaxMeetings) }

FilterInit ==
    /\ entry = "call"
    /\ PUSHOVER_USER_KEY = "secret"
    /\ PUSHOVER_API_TOKEN = "secret"
    /\ pc = "filter"
    /\ sent = <<GetPage, PostTerm, GetSearch>>
    /\ outcome = [s \in RegistrationSteps |-> StatusOutcome(200)]
    /\ \E sections \in SeqsUpTo(FilterSections, MaxFilterSections) :
           data = [success |-> TRUE, totalCount |-> Len(sections), data |-> sections]
    /\ Validate(data) = "ok"
    /\ open_and_wanted_sections = <<>>
    /\ message_body = <<>>
    /\ notifications = <<>>
    /\ pushover_posts = <<>>
    /\ call_site = ""
    /\ delivery = "none"
    /\ exit_code = -1
    /\ uncaught = ""

\* main.py:74-85
ApplyFilter ==
    /\ pc = "filter"
    /\ open_and_wanted_sections' = Filter(data.data)
    /\ pc' = "filtered"
    /\ UNCHANGED <<Config, sent, outcome, data, message_body, notifications,
                   pushover_posts, call_site, delivery, exit_code, uncaught>>

FilterNext == ApplyFilter

FilterSpec == FilterInit /\ [][FilterNext]_vars

-----------------------------------------------------------------------------
(* The message on its own: lines 89-101 applied to one qualifying section *)

AllMeetings ==
    { Meeting(m, t, w, r, f, "1000") : m \in BOOLEAN, t \in BOOLEAN, w \in BOOLEAN,
                                       r \in BOOLEAN, f \in BOOLEAN }

MessageInit ==
    /\ entry = "call"
    /\ PUSHOVER_USER_KEY = "secret"
    /\ PUSHOVER_API_TOKEN = "secret"
    /\ pc = "format"
    /\ sent = <<GetPage, PostTerm, GetSearch>>
    /\ outcome = [s \in RegistrationSteps |-> StatusOutcome(200)]
    /\ \E meetings \in SeqsUpTo(AllMeetings, MaxMsgMeetings) :
           LET section == Section("10002", "Lecture", 3, 30, <<Instructor>>, meetings)
           IN  /\ data = [success |-> TRUE, totalCount |-> 1, data |-> <<section>>]
               /\ open_and_wanted_sections = Filter(<<section>>)
    /\ message_body = <<>>
    /\ notifications = <<>>
    /\ pushover_posts = <<>>
    /\ call_site = ""
    /\ delivery = "none"
    /\ exit_code = -1
    /\ uncaught = ""

\* main.py:89-101
BuildMessage ==
    /\ pc = "format"
    /\ ~FormatRaises(open_and_wanted_sections)
    /\ message_body' = MessageBody(open_and_wanted_sections)
    /\ pc' = "formatted"
    /\ UNCHANGED <<Config, sent, outcome, data, open_and_wanted_sections,
                   notifications, pushover_posts, call_site, delivery, exit_code,
                   uncaught>>

MessageNext == BuildMessage

MessageSpec == MessageInit /\ [][MessageNext]_vars

-----------------------------------------------------------------------------
(* Vocabulary of the properties *)

StepIndex(step) ==
    CASE step = "get_page" -> 1
      [] step = "post_term" -> 2
      [] step = "get_search" -> 3

RequestOrder == <<GetPage, PostTerm, GetSearch>>

\* The request ended in a network error, a timeout, or a 4xx/5xx status.
Failed(o) == o.kind = "error" \/ (o.kind = "status" /\ o.code \in 400..599)

\* The request ended in a network error, a timeout, or any status outside 2xx.
FailedOrNon2xx(o) == o.kind = "error" \/ (o.kind = "status" /\ o.code \notin 200..299)

\* The request was answered and the answer was not an HTTP error.
Answered(o) == o.kind = "status" /\ o.code \notin 400..599

\* Nothing was sent to the registration site after the request of `step`.
AbortedAt(step) ==
    /\ Len(sent) = StepIndex(step)
    /\ \A t \in RegistrationSteps : StepIndex(t) > StepIndex(step) => outcome[t] = NoOutcome

\* One call of the notifier, the failure one at high priority, no traceback,
\* and the process on its way to a non-zero exit.
FailureReported ==
    /\ Len(notifications) = 1
    /\ notifications[1].title = FailureTitle
    /\ notifications[1].is_high_priority
    /\ uncaught = ""
    /\ pc \in {"pushover", "exited"}
    /\ pc = "exited" => exit_code # 0

\* The search was answered with a 2xx status and a JSON body.
SearchParsed ==
    /\ outcome["get_search"].kind = "status"
    /\ outcome["get_search"].code \in 200..299
    /\ outcome["get_search"].exc = ""

\* Success flag true, data present, total count present and positive.
WellFormed(json) ==
    /\ "success" \in DOMAIN json /\ json.success
    /\ "data" \in DOMAIN json
    /\ "totalCount" \in DOMAIN json /\ json.totalCount > 0

\* Excluded: a Discussion with a meeting on Friday at 0800 or 0900.
Excluded(section) ==
    /\ section.scheduleTypeDescription = "Discussion"
    /\ \E j \in 1..Len(section.meetingsFaculty) :
           /\ section.meetingsFaculty[j].meetingTime.friday
           /\ section.meetingsFaculty[j].meetingTime.beginTime \in {"0800", "0900"}

Occurs(section, seq) == \E j \in 1..Len(seq) : seq[j] = section

IsSubsequence(sub, seq) ==
    \E f \in [1..Len(sub) -> 1..Len(seq)] :
        /\ \A i \in 1..Len(sub) : sub[i] = seq[f[i]]
        /\ \A i, j \in 1..Len(sub) : i < j => f[i] < f[j]

-----------------------------------------------------------------------------
(* Properties *)

\* C1: once the filter has run over the data array, a section of the array
\* is in open_and_wanted_sections if and only if it has seatsAvailable > 0
\* and is not excluded; so a section with no seats is left out whatever its
\* type and an open section that is not a Discussion is kept.
C1_FilterKeepsOpenAndWanted ==
    pc = "filtered" =>
        /\ \A i \in 1..Len(data.data) :
               LET section == data.data[i]
               IN  Occurs(section, open_and_wanted_sections)
                       <=> (section.seatsAvailable > 0 /\ ~Excluded(section))
        /\ \A j \in 1..Len(open_and_wanted_sections) :
               Occurs(open_and_wanted_sections[j], data.data)

\* An open Discussion whose second meeting is the Friday morning one was
\* dropped while another section of the same payload was kept.
C1_Witness ==
    /\ pc = "filtered"
    /\ Len(data.data) = 2
    /\ Len(open_and_wanted_sections) = 1
    /\ \E i \in 1..2 :
           /\ data.data[i].seatsAvailable > 0
           /\ Len(data.data[i].meetingsFaculty) = 2
           /\ ~data.data[i].meetingsFaculty[1].meetingTime.friday
           /\ Excluded(data.data[i])

\* C8: the filtered list is a subsequence of the data array: kept sections
\* keep their relative order and none is repeated.
C8_FilterIsSubsequence ==
    pc = "filtered" => IsSubsequence(open_and_wanted_sections, data.data)

\* Two different sections were both kept.
C8_Witness ==
    /\ pc = "filtered"
    /\ Len(open_and_wanted_sections) = 2
    /\ open_and_wanted_sections[1] # open_and_wanted_sections[2]

C2_Non2xxAborts ==
    \A s \in RegistrationSteps :
        FailedOrNon2xx(outcome[s]) => AbortedAt(s) /\ FailureReported

\* C2 amended: the same for a network error, a timeout or a 4xx/5xx status.
C2_FailedRequestAborts ==
    \A s \in RegistrationSteps :
        Failed(outcome[s]) => AbortedAt(s) /\ FailureReported

\* The search request got a 5xx and the failure notification was delivered.
C2_Witness ==
    /\ pc = "exited"
    /\ outcome["get_search"] = StatusOutcome(500)
    /\ delivery = "sent"
    /\ exit_code = 1

\* C3: a parsed search response without a true success flag, a data array
\* and a positive total count leaves nothing filtered and is reported like
\* an HTTP error: one high-priority "UCR Checker Failure" notification and a
\* non-zero exit.
C3_InvalidResponseReported ==
    (SearchParsed /\ ~WellFormed(data)) =>
        open_and_wanted_sections = <<>> /\ FailureReported

\* C4: a run whose three requests succeed and whose response is valid ends
\* with exit code 0, after exactly one high-priority notification if the
\* filtered list is non-empty and after none if it is empty.
C4_ValidResponseCompletes ==
    (/\ pc = "exited"
     /\ \A s \in RegistrationSteps : outcome[s].kind = "status" /\ outcome[s].code \in 200..299
     /\ SearchParsed
     /\ WellFormed(data)) =>
        /\ exit_code = 0
        /\ IF open_and_wanted_sections # <<>>
           THEN Len(notifications) = 1 /\ notifications[1].is_high_priority
           ELSE notifications = <<>>

\* C6: when the pushover POST fails, send_pushover_notification still
\* returns normally: no exception leaves it, no further notification is
\* attempted, and the run ends with the exit code of its path, 0 after
\* "Seat Found" and 1 after "UCR Checker Failure".
C6_DeliveryFailureSwallowed ==
    delivery = "failed" =>
        /\ pc = "exited"
        /\ uncaught = ""
        /\ Len(notifications) = 1
        /\ Len(pushover_posts) = 1
        /\ exit_code = (IF notifications[1].title = SeatFoundTitle THEN 0 ELSE 1)

\* The "Seat Found" notification could not be delivered; the run exits 0.
C6_Witness ==
    /\ delivery = "failed"
    /\ notifications[1].title = SeatFoundTitle
    /\ exit_code = 0

\* C7: with a credential unset or empty, send_pushover_notification posts
\* nothing and returns to its caller, and a run started as a script exits 1
\* before any request is sent.
C7_NoCredentialsNoPost ==
    (~Truthy(PUSHOVER_USER_KEY) \/ ~Truthy(PUSHOVER_API_TOKEN)) =>
        /\ pushover_posts = <<>>
        /\ pc # "pushover"
        /\ uncaught \notin RequestExceptions
        /\ notifications # <<>> =>
               /\ pc = "exited"
               /\ exit_code = (IF notifications[1].title = SeatFoundTitle THEN 0 ELSE 1)
        /\ entry = "script" =>
               /\ sent = <<>>
               /\ notifications = <<>>
               /\ pc = "exited" => exit_code = 1

\* The notifier was called with the user key set and the token empty.
C7_Witness ==
    /\ PUSHOVER_USER_KEY = "secret"
    /\ PUSHOVER_API_TOKEN = ""
    /\ Len(notifications) = 1
    /\ notifications[1].title = SeatFoundTitle
    /\ pc = "exited"

\* C9: every HTTP call has a timeout, so every run ends, with exit code 0
\* or with a non-zero one, even if a server never answers.
C9_RunTerminates == <>(pc = "exited")

UpperCase(c) ==
    CASE c = "m" -> "M"
      [] c = "t" -> "T"
      [] c = "w" -> "W"
      [] c = "f" -> "F"
      [] OTHER -> c

DayLetter(d) ==
    CASE d = "monday" -> "M"
      [] d = "tuesday" -> "T"
      [] d = "wednesday" -> "W"
      [] d = "thursday" -> "R"
      [] d = "friday" -> "F"

\* The letters of "MTWRF" whose weekday flag is true, Monday to Friday.
ExpectedDays(mt) ==
    LET RECURSIVE Pick(_)
        Pick(names) ==
            IF names = <<>> THEN <<>>
            ELSE (IF mt[Head(names)] THEN <<DayLetter(Head(names))>> ELSE <<>>)
                 \o Pick(Tail(names))
    IN  Pick(WEEKDAYS)

WeekdayFlags(mt) == [d \in {WEEKDAYS[i] : i \in 1..5} |-> mt[d]]

\* C10: the day string of every meeting in the message is the letters of
\* "MTWRF" whose weekday flag is true, in Monday-to-Friday order (letter
\* case aside), and meetings with different flags get different strings.
C10_DayStrings ==
    pc = "formatted" =>
        \A i \in 1..Len(message_body) :
            LET meetings == open_and_wanted_sections[i].meetingsFaculty
                lines == message_body[i].meetings
            IN  /\ \A j \in 1..Len(lines) :
                       [k \in 1..Len(lines[j].days) |-> UpperCase(lines[j].days[k])]
                           = ExpectedDays(meetings[j].meetingTime)
                /\ \A j, k \in 1..Len(lines) :
                       WeekdayFlags(meetings[j].meetingTime) # WeekdayFlags(meetings[k].meetingTime)
                           => lines[j].days # lines[k].days

====
